---- MODULE Spec2Model ----
(***************************************************************************)
(* Model of pyfp: the IEEE format descriptors (src/src/fp/ieee.py), the    *)
(* limit search engine (src/src/fp/limits.py and the older top-level       *)
(* src/limits.py) and the mpmath working-precision context they run under. *)
(*                                                                         *)
(* An mpf value is a sign and the set of exponents of the one bits of its  *)
(* magnitude, so 1 + 2^-52 is [neg |-> FALSE, bits |-> {0, -52}].  The     *)
(* exponent is unbounded, as in mpmath; every arithmetic result is rounded *)
(* to the working precision, to nearest, ties to even.                     *)
(***************************************************************************)
EXTENDS Integers, Sequences, FiniteSets, TLC

\* ------------------------------------------------------------------ mpf

MaxOf(S) == CHOOSE m \in S : \A e \in S : e <= m

MinOf(S) == CHOOSE m \in S : \A e \in S : m <= e

mpf(neg, bits) == [neg |-> (neg /\ bits # {}), bits |-> bits]

zero == mpf(FALSE, {})

one == mpf(FALSE, {0})

two == mpf(FALSE, {1})

pow2(e) == mpf(FALSE, {e})

RECURSIVE MagAdd(_, _)
\* Sum of two magnitudes: the bits set in one only, plus the carries.
MagAdd(A, B) ==
  LET c == A \cap B
  IN  IF c = {} THEN A \cup B
      ELSE MagAdd((A \cup B) \ c, {e + 1 : e \in c})

RECURSIVE MagSub(_, _)
\* Difference of two magnitudes, A >= B: the differing bits, less the borrows.
MagSub(A, B) ==
  LET d == B \ A
  IN  IF d = {} THEN A \ B
      ELSE MagSub((A \ B) \cup d, {e + 1 : e \in d})

MagLess(A, B) ==
  /\ A # B
  /\ MaxOf((A \ B) \cup (B \ A)) \in B

\* Round a magnitude to p significant bits, to nearest, ties to even.
MagRound(A, p) ==
  IF A = {} THEN {}
  ELSE LET cut  == MaxOf(A) - p
           K    == {e \in A : e > cut}
           R    == A \ K
           up   == cut \in R /\ (R # {cut} \/ (cut + 1) \in K)
       IN  IF up THEN MagAdd(K, {cut + 1}) ELSE K

Round(v, p) == mpf(v.neg, MagRound(v.bits, p))

Neg(v) == mpf(~v.neg, v.bits)

Abs(v) == mpf(FALSE, v.bits)

Less(u, v) ==
  IF u.neg # v.neg THEN u.neg
  ELSE IF u.neg THEN MagLess(v.bits, u.bits)
  ELSE MagLess(u.bits, v.bits)

Leq(u, v) == u = v \/ Less(u, v)

\* u + v exactly.
ExactAdd(u, v) ==
  IF u.neg = v.neg THEN mpf(u.neg, MagAdd(u.bits, v.bits))
  ELSE IF MagLess(u.bits, v.bits) THEN mpf(v.neg, MagSub(v.bits, u.bits))
  ELSE mpf(u.neg, MagSub(u.bits, v.bits))

\* The mpf operators, at working precision p.
Add(u, v, p) == Round(ExactAdd(u, v), p)

Sub(u, v, p) == Round(ExactAdd(u, Neg(v)), p)

Scale(v, k) == mpf(v.neg, {e + k : e \in v.bits})

Div2(v, p) == Round(Scale(v, -1), p)

Mul2(v, p) == Round(Scale(v, 1), p)

\* ------------------------------------------------------ IEEE formats

\* Python's falsy precision argument (prec=None, or 0): "prec or mp.prec".
None == 0

RECURSIVE pow(_, _)
pow(b, n) == IF n = 0 THEN 1 ELSE b * pow(b, n - 1)

IEEEFormat(name, bits, exp, prec) ==
  [name |-> name, bits |-> bits, exp |-> exp, prec |-> prec,
   bias |-> pow(2, exp - 1) - 1]

ieee_float == IEEEFormat("single", 32, 8, 24)

ieee_double == IEEEFormat("double", 64, 11, 53)

intel_extended == IEEEFormat("extended", 80, 15, 63)

ieee_quad == IEEEFormat("quad", 128, 15, 113)

\* The registry, in the dict's insertion order.
ieee_formats == <<ieee_float, ieee_double, intel_extended, ieee_quad>>

supported(prec) == \E i \in DOMAIN ieee_formats : ieee_formats[i].prec = prec

\* ieee_formats[prec]: the last format registered under the key.
lookup(prec) ==
  ieee_formats[MaxOf({i \in DOMAIN ieee_formats : ieee_formats[i].prec = prec})]

\* A lookup that ignores its argument and always takes the ambient precision.
format_key_ambient(prec, ambient) == ambient

\* ieee_format(prec): the key looked up, and whether the lookup raises KeyError.
format_key(prec, ambient) == IF prec = None THEN ambient ELSE prec

ieee_format_raises(prec, ambient) == ~supported(format_key(prec, ambient))

ieee_format(prec, ambient) == lookup(format_key(prec, ambient))

min_exp(fmt, denorm) ==
  IF denorm THEN -(fmt.bias - 1) - (fmt.prec - 1) ELSE -(fmt.bias - 1)

max_exp(fmt) == fmt.bias

AbsInt(n) == IF n < 0 THEN -n ELSE n

\* mp.power(2, e) at working precision p.
min_value(fmt, p) == Round(pow2(min_exp(fmt, TRUE)), p)

max_value(fmt, p) == Round(pow2(max_exp(fmt)), p)

\* next_power(x): 2^(floor(log2 |x|) + 1) at working precision p; abs rounds
\* its argument to p bits, log(0) is -inf and 2^-inf is 0.  The logarithm's
\* own rounding is not modelled: it can only start the ulp loop one power
\* higher, which the loop's result does not depend on.
next_power(x, p) ==
  LET a == Round(Abs(x), p)
  IN  IF a = zero THEN zero ELSE pow2(MaxOf(a.bits) + 1)

\* while (x + ulp) != x and ulp != zero and n < min_exp: ulp /= two; n += 1
\* After k iterations ulp is its start halved k times; the loop leaves at the
\* first k where its condition fails, and the condition, once false, stays
\* false (a smaller ulp changes x no more than a larger one).
ulp_stop(x, u, k, p, lim) ==
  ~(Add(x, Round(Scale(u, -k), p), p) # x /\ u # zero /\ k < lim)

ulp_loop(x, u, p, lim) ==
  LET k == CHOOSE j \in 0..lim :
             ulp_stop(x, u, j, p, lim) /\ (j = 0 \/ ~ulp_stop(x, u, j - 1, p, lim))
  IN  Round(Scale(u, -k), p)

\* IEEEFormat.ulp(x) called with the ambient precision `ambient`: x is
\* converted at the ambient precision, the loop runs at the format's, and
\* the final doubling is again at the ambient precision.
ulp(fmt, x, ambient) ==
  LET x1 == Round(x, ambient)
      u  == ulp_loop(x1, next_power(x1, fmt.prec), fmt.prec,
                     AbsInt(min_exp(fmt, TRUE)))
  IN  Mul2(u, ambient)

\* ------------------------------------------------- func and limit

\* The candidate and limit functions a caller passes in.  "value" is a
\* limit given as a number, not a callable.
Fn(kind, a, b, t) == [kind |-> kind, a |-> a, b |-> b, t |-> t]

callable(l) == l.kind # "value"

\* f(x) at working precision p: the value, or the exception raised.
Apply(f, x, p) ==
  CASE f.kind = "const"    -> [exc |-> "", v |-> f.a]
    [] f.kind = "ident"    -> [exc |-> "", v |-> x]
    [] f.kind = "one_plus" -> [exc |-> "", v |-> Add(one, x, p)]
    [] f.kind = "step"     -> [exc |-> "", v |-> IF Leq(x, f.t) THEN f.a ELSE f.b]
    [] f.kind = "raise"    -> [exc |-> "ValueError", v |-> zero]
    [] f.kind = "value"    -> [exc |-> "TypeError", v |-> zero]

\* find_fp's wrapping of a limit that is not callable.
wrap_limit(l, p) ==
  IF callable(l) THEN l ELSE Fn("const", Round(l.a, p), zero, zero)

\* The comparison predicates the entry points choose from.
compare(cmp, fmt, fx, lx, p) ==
  CASE cmp = "eq"     -> fx = lx
    [] cmp = "ne"     -> fx # lx
    [] cmp = "le_ulp" -> Leq(Abs(Sub(fx, lx, p)), ulp(fmt, fx, p))
    [] cmp = "gt_ulp" -> Less(ulp(fmt, fx, p), Abs(Sub(fx, lx, p)))

\* --------------------------------------------------------- bounds

\* bisect_limit's loop and dist's loop are cut off here when the inputs keep
\* them running (mpf exponents have no lower end).
MaxBisect == 70

MaxDist == 6

\* ---------------------------------------------------------- inputs

\* mp.prec as a caller may set it; 30 is no standard format's precision.
AmbientPrecs == {53, 30}

\* prec arguments of the searches: omitted, a standard format's, and one
\* that is no format's.
PrecArgs == {None, 24, 7}

\* prec arguments of ieee_format.
FormatArgs == {None, 24, 53, 63, 113, 7, 64}

\* workfloat arguments: 4 bytes, 64 bits, 10 bytes, and no format's width.
Widths == {4, 64, 10, 5}

three_eighths == mpf(FALSE, {-2, -3})

\* 1 - 2^-24: the single-precision neighbour of 1 from below.
below_one == mpf(FALSE, -24..-1)

NoFn == Fn("none", zero, zero, zero)

Const(c) == Fn("const", c, zero, zero)

Value(c) == Fn("value", c, zero, zero)

Pair(f, l) == [func |-> f, limit |-> l]

Pairs ==
  { Pair(Fn("one_plus", zero, zero, zero), Value(one)),
    Pair(Fn("one_plus", zero, zero, zero), Const(one)),
    Pair(Const(two), Const(one)),
    Pair(Const(two), Value(one)),
    Pair(Const(one), Const(one)),
    Pair(Fn("step", one, two, three_eighths), Const(one)),
    Pair(Fn("step", two, one, three_eighths), Const(one)),
    Pair(Fn("raise", zero, zero, zero), Const(one)),
    Pair(Fn("ident", zero, zero, zero), Const(zero)),
    Pair(Const(one), Const(below_one)) }

Bracket(lo, hi, given) == [lower |-> lo, upper |-> hi, given |-> given]

\* (lower_limit, upper_limit) arguments; upper_limit may be left out.
Brackets ==
  { Bracket(pow2(-2), zero, FALSE),
    Bracket(pow2(-24), zero, FALSE),
    Bracket(zero, one, TRUE),
    Bracket(pow2(-1), pow2(-2), TRUE) }

\* Arguments of IEEEFormat.ulp and IEEEFormat.dist.
UlpArgs ==
  { one, Neg(one), mpf(FALSE, {0, -23}), mpf(TRUE, {1, 0}), pow2(-140),
    mpf(FALSE, {0, -30}), mpf(FALSE, -52..0), mpf(FALSE, {3, -49}) }

DistArgs == { one, mpf(FALSE, {0, -22}), mpf(FALSE, {0, -23}), below_one }

\* ----------------------------------------------------------- state

VARIABLES
  mp_prec,   \* mp.prec, the ambient working precision
  wf,        \* the workfloat block the caller is in, if any
  call,      \* the call in progress: its position and locals
  ret        \* how the last finished call ended

vars == <<mp_prec, wf, call, ret>>

NoWf == [active |-> FALSE, origp |-> 0, w |-> 0]

Idle ==
  [fn |-> "idle", pc |-> "idle", prec |-> None, nulp |-> 0,
   func |-> NoFn, limit |-> NoFn, wlimit |-> NoFn, cmp |-> "eq",
   dir |-> "down", key |-> 0, origp |-> 0, x |-> zero, last_x |-> zero,
   has_last |-> FALSE, lower |-> zero, upper |-> zero, lower0 |-> zero,
   upper0 |-> zero, xstop |-> zero, nsteps |-> 0, max_steps |-> 0,
   evals |-> 0, exc |-> ""]

NoRet ==
  [fn |-> "none", status |-> "", prec |-> None, nulp |-> 0,
   func |-> NoFn, limit |-> NoFn, key |-> 0, entry |-> 0, exit |-> 0,
   arg |-> zero, value |-> zero, steps |-> 0, coarse |-> 0, evals |-> 0,
   lower0 |-> zero, upper0 |-> zero, fmt |-> IEEEFormat("none", 0, 1, 0)]

\* mpmath's workprec(n): __enter__ saves mp.prec and sets it to n (mp.prec is
\* at least 1); __exit__, run on a normal exit and on an exception alike,
\* sets it back.
workprec_enter(n) == IF n < 1 THEN 1 ELSE n

\* An exit that leaves mp.prec as the block set it.
workprec_exit_keeps(origp, cur) == cur

workprec_exit(origp, cur) == origp

\* The result record of call c ending with `status` and mp.prec = exit.
Outcome(status, c, exit) ==
  [NoRet EXCEPT !.fn = c.fn, !.status = status, !.prec = c.prec,
     !.nulp = c.nulp, !.func = c.func, !.limit = c.limit, !.key = c.key,
     !.entry = c.origp, !.exit = exit, !.evals = c.evals,
     !.lower0 = c.lower0, !.upper0 = c.upper0, !.arg = c.x]

Args(fn, f, l, nulp, prec) ==
  [Idle EXCEPT !.fn = fn, !.func = f, !.limit = l, !.wlimit = l,
     !.nulp = nulp, !.prec = prec, !.origp = mp_prec,
     !.key = format_key(prec, mp_prec)]

TypeOK ==
  /\ mp_prec \in Nat \ {0}
  /\ wf.active \in BOOLEAN
  /\ call.pc \in {"idle", "find_fp", "coarse", "bisect", "dist", "exit"}
  /\ call.pc = "idle" <=> call.fn = "idle"

Init ==
  /\ mp_prec \in AmbientPrecs
  /\ wf = NoWf
  /\ call = Idle
  /\ ret = NoRet

\* No call is in progress and the caller holds no result: it may call.
Ready == call.pc = "idle" /\ ret = NoRet

\* The caller takes the last call's result, or catches its exception.
take_result ==
  /\ call.pc = "idle" /\ ret # NoRet
  /\ ret' = NoRet
  /\ UNCHANGED <<mp_prec, wf, call>>

\* mp.prec = n, by the caller, between calls.
set_prec(n) ==
  /\ Ready /\ ~wf.active /\ n # mp_prec
  /\ mp_prec' = workprec_enter(n)
  /\ ret' = NoRet
  /\ UNCHANGED <<wf, call>>

\* A call that raises KeyError in ieee_format(prec), its first statement.
KeyErrorRaised(c) ==
  /\ ret' = Outcome("KeyError", c, mp_prec)
  /\ UNCHANGED <<mp_prec, wf, call>>

\* ieee_format(prec)
call_ieee_format(prec) ==
  /\ Ready
  /\ LET c == Args("ieee_format", NoFn, NoFn, 0, prec)
     IN  IF ieee_format_raises(prec, mp_prec) THEN KeyErrorRaised(c)
         ELSE /\ ret' = [Outcome("ok", c, mp_prec)
                           EXCEPT !.fmt = ieee_format(prec, mp_prec)]
              /\ UNCHANGED <<mp_prec, wf, call>>

\* -------------------------------------------------- the coarse search

\* The names bound at module level in src/src/fp/limits.py and in the
\* top-level src/limits.py.
fp_limits_globals ==
  {"mp", "mpf", "workprec", "eq", "ne", "zero", "one", "two", "ieee_format",
   "find_fp_fast", "find_limit_fast", "find_limit_reverse_fast",
   "bisect_limit", "find_limit", "find_limit_reverse"}

limits_globals ==
  {"mp", "mpf", "workprec", "eq", "ne", "zero", "one", "two", "ieee_format",
   "find_fp", "find_limit", "find_limit_reverse"}

\* The entry of a search: ieee_format(prec), the default xstart and xstop
\* (at the ambient precision), the comparison, and "with workprec(prec or
\* mp.prec)"; the next statement is the call of find_fp.
enter_search(fn, dir, f, l, nulp, prec, cmp) ==
  /\ Ready
  /\ LET c == Args(fn, f, l, nulp, prec)
     IN  IF ieee_format_raises(prec, mp_prec) THEN KeyErrorRaised(c)
         ELSE LET fmt == ieee_format(prec, mp_prec)
              IN  /\ call' = [c EXCEPT
                        !.pc = "find_fp", !.dir = dir, !.cmp = cmp,
                        !.x = IF dir = "down" THEN one ELSE min_value(fmt, mp_prec),
                        !.xstop = IF dir = "down" THEN min_value(fmt, mp_prec) ELSE one,
                        !.max_steps = AbsInt(min_exp(fmt, TRUE))]
                  /\ mp_prec' = workprec_enter(format_key(prec, mp_prec))
                  /\ ret' = NoRet
                  /\ UNCHANGED wf

\* fp.limits.find_limit and find_limit_reverse, up to their call of find_fp.
find_limit(f, l, nulp, prec) ==
  enter_search("find_limit", "down", f, l, nulp, prec,
               IF nulp # 0 THEN "le_ulp" ELSE "eq")

find_limit_reverse(f, l, nulp, prec) ==
  enter_search("find_limit_reverse", "up", f, l, nulp, prec,
               IF nulp # 0 THEN "gt_ulp" ELSE "ne")

\* The top-level limits.find_limit and find_limit_reverse: they choose
\* `compare` by nulp and then pass eq, or ne, to find_fp.
limits_find_limit(f, l, nulp, prec) ==
  enter_search("limits.find_limit", "down", f, l, nulp, prec, "eq")

limits_find_limit_reverse(f, l, nulp, prec) ==
  enter_search("limits.find_limit_reverse", "up", f, l, nulp, prec, "ne")

module_globals(fn) ==
  IF fn \in {"limits.find_limit", "limits.find_limit_reverse"}
  THEN limits_globals ELSE fp_limits_globals

\* The call find_fp(func, limit, xstart, xstop, xstep, compare, max_steps):
\* the name is looked up in the calling module's globals (NameError when it
\* is not bound there); find_fp then wraps a limit that is not callable.
find_fp_call ==
  /\ call.pc = "find_fp"
  /\ call' = IF "find_fp" \in module_globals(call.fn)
             THEN [call EXCEPT !.pc = "coarse",
                               !.wlimit = wrap_limit(call.limit, mp_prec)]
             ELSE [call EXCEPT !.pc = "exit", !.exc = "NameError"]
  /\ UNCHANGED <<mp_prec, wf, ret>>

xstep(dir, x, p) == IF dir = "down" THEN Div2(x, p) ELSE Mul2(x, p)

\* One evaluation of find_fp's loop condition, and the loop body if it holds.
find_fp_step ==
  /\ call.pc = "coarse"
  /\ LET p   == mp_prec
         fmt == lookup(call.key)
         fx  == Apply(call.func, call.x, p)
         lx  == Apply(call.wlimit, call.x, p)
     IN  call' =
           IF call.x = call.xstop \/ call.nsteps = call.max_steps
           THEN [call EXCEPT !.pc = "exit"]
           ELSE IF fx.exc # ""
           THEN [call EXCEPT !.pc = "exit", !.exc = fx.exc, !.evals = @ + 1]
           ELSE IF lx.exc # ""
           THEN [call EXCEPT !.pc = "exit", !.exc = lx.exc, !.evals = @ + 1]
           ELSE IF compare(call.cmp, fmt, fx.v, lx.v, p)
           THEN [call EXCEPT !.pc = "exit", !.evals = @ + 2]
           ELSE [call EXCEPT !.x = xstep(call.dir, call.x, p),
                             !.nsteps = @ + 1, !.evals = @ + 2]
  /\ UNCHANGED <<mp_prec, wf, ret>>

\* ---------------------------------------------------- bisect_limit

\* bisect_limit(func, limit, lower_limit, upper_limit, nulp, prec), to the
\* start of its loop.  The limit is used as passed.
bisect_limit(f, l, b, nulp, prec) ==
  /\ Ready
  /\ LET upper == IF b.given THEN b.upper ELSE Mul2(b.lower, mp_prec)
         c == [Args("bisect_limit", f, l, nulp, prec)
                 EXCEPT !.lower0 = b.lower, !.upper0 = upper]
     IN  IF ieee_format_raises(prec, mp_prec) THEN KeyErrorRaised(c)
         ELSE /\ call' = [c EXCEPT
                    !.pc = "bisect", !.lower = b.lower, !.upper = upper,
                    !.cmp = IF nulp # 0 THEN "gt_ulp" ELSE "eq",
                    !.x = b.lower]
              /\ mp_prec' = workprec_enter(format_key(prec, mp_prec))
              /\ ret' = NoRet
              /\ UNCHANGED wf

bisect_continues(c) == (~c.has_last \/ c.x # c.last_x) /\ c.lower # c.upper

\* One evaluation of bisect_limit's loop condition, and the body if it holds.
bisect_step ==
  /\ call.pc = "bisect"
  /\ call.nsteps < MaxBisect
  /\ LET p   == mp_prec
         fmt == lookup(call.key)
         fx  == Apply(call.func, call.x, p)
         lx  == Apply(call.limit, call.x, p)
     IN  call' =
           IF ~bisect_continues(call)
           THEN [call EXCEPT !.pc = "exit"]
           ELSE IF fx.exc # ""
           THEN [call EXCEPT !.pc = "exit", !.exc = fx.exc, !.evals = @ + 1]
           ELSE IF lx.exc # ""
           THEN [call EXCEPT !.pc = "exit", !.exc = lx.exc, !.evals = @ + 1]
           ELSE LET hit == compare(call.cmp, fmt, fx.v, lx.v, p)
                    lo  == IF hit THEN call.x ELSE call.lower
                    hi  == IF hit THEN call.upper ELSE call.x
                IN  [call EXCEPT !.lower = lo, !.upper = hi,
                                 !.last_x = call.x, !.has_last = TRUE,
                                 !.x = Div2(Add(hi, lo, p), p),
                                 !.nsteps = @ + 1, !.evals = @ + 2]
  /\ UNCHANGED <<mp_prec, wf, ret>>

\* ------------------------------------------------ IEEEFormat.dist

\* fmt.dist(f1, f2), to the start of its loop.
dist(fmt, f1, f2) ==
  /\ Ready
  /\ LET p  == workprec_enter(fmt.prec)
         lo == IF Less(f2, f1) THEN f2 ELSE f1
         hi == IF Less(f1, f2) THEN f2 ELSE f1
     IN  /\ call' = [Args("dist", NoFn, NoFn, 0, fmt.prec)
                       EXCEPT !.pc = "dist", !.lower = Round(lo, p),
                              !.upper = Round(hi, p), !.lower0 = f1,
                              !.upper0 = f2]
         /\ mp_prec' = p
  /\ ret' = NoRet
  /\ UNCHANGED wf

dist_step ==
  /\ call.pc = "dist"
  /\ call.nsteps < MaxDist
  /\ LET fmt == lookup(call.key)
     IN  call' =
           IF call.lower = call.upper THEN [call EXCEPT !.pc = "exit"]
           ELSE [call EXCEPT
                   !.lower = Add(@, ulp(fmt, call.lower, mp_prec), mp_prec),
                   !.nsteps = @ + 1]
  /\ UNCHANGED <<mp_prec, wf, ret>>

\* ------------------------------------------------- leaving a call

\* The with block is left, by return or by an exception, and the call ends.
exit_workprec ==
  /\ call.pc = "exit"
  /\ LET p    == mp_prec
         exit == workprec_exit(call.origp, p)
         out  == Outcome(IF call.exc = "" THEN "ok" ELSE call.exc, call, exit)
     IN  /\ mp_prec' = exit
         /\ ret' =
              IF call.exc # "" THEN out
              ELSE CASE call.fn = "limits.find_limit" ->
                          [out EXCEPT !.value = call.x, !.steps = call.nsteps,
                                      !.coarse = call.nsteps]
                     [] call.fn = "limits.find_limit_reverse" ->
                          [out EXCEPT !.value = Div2(call.x, p),
                                      !.steps = call.max_steps - call.nsteps + 1,
                                      !.coarse = call.nsteps]
                     [] call.fn = "bisect_limit" ->
                          [out EXCEPT !.value = call.lower, !.steps = call.nsteps]
                     [] call.fn = "dist" ->
                          [out EXCEPT !.steps = call.nsteps]
                     [] OTHER -> out
  /\ call' = Idle
  /\ UNCHANGED wf

\* ------------------------------------------------- IEEEFormat.ulp

\* fmt.ulp(x): the loop runs inside "with mp.workprec(self.prec)".
call_ulp(fmt, x) ==
  /\ Ready
  /\ LET c    == [Args("ulp", NoFn, NoFn, 0, fmt.prec) EXCEPT !.x = x]
         exit == workprec_exit(mp_prec, workprec_enter(fmt.prec))
     IN  /\ mp_prec' = exit
         /\ ret' = [Outcome("ok", c, exit) EXCEPT !.value = ulp(fmt, x, mp_prec)]
  /\ UNCHANGED <<wf, call>>

\* ------------------------------------------------------ workfloat

\* The formats workfloat's loop matches, in the registry's order.
workfloat_matches(w) ==
  SelectSeq(ieee_formats, LAMBDA f : w = f.bits \/ w = f.bits \div 8)

\* "with workfloat(w):" is entered: the generator runs to its first yield,
\* inside mp.workprec(fmt.prec), or to "raise KeyError" with no match.
workfloat(w) ==
  /\ Ready /\ ~wf.active
  /\ LET m == workfloat_matches(w)
         c == [Args("workfloat", NoFn, NoFn, 0, None) EXCEPT !.key = w]
     IN  IF m = << >> THEN KeyErrorRaised(c)
         ELSE /\ wf' = [active |-> TRUE, origp |-> mp_prec, w |-> w]
              /\ mp_prec' = workprec_enter(m[1].prec)
              /\ ret' = NoRet
              /\ UNCHANGED call

\* The block is left, normally or by an exception raised in it: workprec
\* restores mp.prec; on a normal exit the generator resumes its loop, and a
\* second matching format would make it yield again inside that format's
\* workprec (contextlib then raises RuntimeError).
workfloat_exit(raised) ==
  /\ Ready /\ wf.active
  /\ LET m    == workfloat_matches(wf.w)
         back == workprec_exit(wf.origp, mp_prec)
         again == ~raised /\ Len(m) > 1
         exit == IF again THEN workprec_enter(m[2].prec) ELSE back
         c    == [Args("workfloat", NoFn, NoFn, 0, None)
                    EXCEPT !.key = wf.w, !.origp = wf.origp]
     IN  /\ mp_prec' = exit
         /\ ret' = Outcome(IF raised THEN "ValueError"
                           ELSE IF again THEN "RuntimeError" ELSE "ok", c, exit)
  /\ wf' = NoWf
  /\ UNCHANGED call

\* ------------------------------------------------- specifications

Next ==
  \/ take_result
  \/ \E n \in AmbientPrecs : set_prec(n)
  \/ \E p \in FormatArgs : call_ieee_format(p)
  \/ \E q \in Pairs, nulp \in {0, 1}, p \in PrecArgs :
       find_limit(q.func, q.limit, nulp, p)
  \/ \E q \in Pairs, nulp \in {0, 1}, p \in PrecArgs :
       find_limit_reverse(q.func, q.limit, nulp, p)
  \/ find_fp_call
  \/ \E q \in Pairs, b \in Brackets, nulp \in {0, 1}, p \in PrecArgs :
       bisect_limit(q.func, q.limit, b, nulp, p)
  \/ bisect_step
  \/ \E i \in DOMAIN ieee_formats, x \in UlpArgs : call_ulp(ieee_formats[i], x)
  \/ \E i \in DOMAIN ieee_formats, a \in DistArgs, b \in DistArgs :
       dist(ieee_formats[i], a, b)
  \/ dist_step
  \/ exit_workprec
  \/ \E w \in Widths : workfloat(w)
  \/ \E raised \in BOOLEAN : workfloat_exit(raised)

Spec == Init /\ [][Next]_vars

\* The top-level limits module on its own: the coarse search runs there.
NextLimits ==
  \/ take_result
  \/ \E n \in AmbientPrecs : set_prec(n)
  \/ \E q \in Pairs, nulp \in {0, 1}, p \in PrecArgs :
       limits_find_limit(q.func, q.limit, nulp, p)
  \/ \E q \in Pairs, nulp \in {0, 1}, p \in PrecArgs :
       limits_find_limit_reverse(q.func, q.limit, nulp, p)
  \/ find_fp_call
  \/ find_fp_step
  \/ exit_workprec

SpecLimits == Init /\ [][NextLimits]_vars

\* ----------------------------------------------------------- claims

\* Whether func agrees with limit at x, as the claims state it: equal when
\* nulp is 0, within fmt.ulp(func(x)) otherwise.  A limit given as a value
\* stands for the constant function.
AgreeAt(f, l, nulp, fmt, x, p) ==
  LET fx == Apply(f, x, p).v
      lx == Apply(wrap_limit(l, p), x, p).v
  IN  IF nulp = 0 THEN fx = lx
      ELSE Leq(Abs(Sub(fx, lx, p)), ulp(fmt, fx, p))

Raises(f) == f.kind = "raise"

\* The n-th point of a search with the default start: 2^-n going down from
\* 1, min_value * 2^n going up.
SearchPoint(fmt, down, n) ==
  IF down THEN pow2(-n) ELSE pow2(min_exp(fmt, TRUE) + n)

StepBound(fmt) == AbsInt(min_exp(fmt, TRUE))

\* Agreement at a search point implies agreement at the next smaller one.
DownwardClosed(f, l, nulp, fmt, p) ==
  \A n \in 0..(StepBound(fmt) - 1) :
     AgreeAt(f, l, nulp, fmt, pow2(-n), p) => AgreeAt(f, l, nulp, fmt, pow2(-n - 1), p)

FpSearch == {"find_limit", "find_limit_reverse"}

LimitsSearch == {"limits.find_limit", "limits.find_limit_reverse"}

\* C1: a finished fp.limits search has run its coarse search for at most
\* abs(fmt.min_exp()) steps, and for exactly that many when func and limit
\* never agree (going down) or never diverge (going up).
C1_CoarseStepCount ==
  (ret.fn \in FpSearch /\ ret.status # "KeyError" /\ ~Raises(ret.func)) =>
     LET fmt  == lookup(ret.key)
         down == ret.fn = "find_limit"
         stuck == \A n \in 0..StepBound(fmt) :
                    AgreeAt(ret.func, ret.limit, ret.nulp, fmt,
                            SearchPoint(fmt, down, n), ret.key) = ~down
     IN  /\ ret.status = "ok"
         /\ ret.coarse <= StepBound(fmt)
         /\ stuck => ret.coarse = StepBound(fmt)

\* C1, for the top-level limits module, where the coarse search runs: the
\* step count is at most abs(fmt.min_exp()), and equal to it when the
\* comparison find_fp is given never holds.
C1_LimitsCoarseBound ==
  (ret.fn \in LimitsSearch /\ ret.status = "ok") =>
     LET fmt  == lookup(ret.key)
         down == ret.fn = "limits.find_limit"
         stuck == \A n \in 0..StepBound(fmt) :
                    AgreeAt(ret.func, ret.limit, 0, fmt,
                            SearchPoint(fmt, down, n), ret.key) = ~down
     IN  /\ ret.coarse <= StepBound(fmt)
         /\ stuck => ret.coarse = StepBound(fmt)

\* C2: with nulp = 0, a downward closed agreement region and disagreement
\* at xstart = 1, find_limit returns an x with func(x) == limit(x) and
\* func(2x) != limit(2x).
C2_ExactBoundary ==
  LET fmt == lookup(ret.key)
      p   == ret.key
  IN  ( /\ ret.fn = "find_limit" /\ ret.nulp = 0
        /\ ret.status # "KeyError" /\ ~Raises(ret.func)
        /\ ~AgreeAt(ret.func, ret.limit, 0, fmt, one, p)
        /\ DownwardClosed(ret.func, ret.limit, 0, fmt, p) ) =>
      /\ ret.status = "ok"
      /\ AgreeAt(ret.func, ret.limit, 0, fmt, ret.value, p)
      /\ ~AgreeAt(ret.func, ret.limit, 0, fmt, Mul2(ret.value, p), p)

\* C3: the coarse search stops at the first point where the comparison
\* chosen by nulp holds: agreement going down, disagreement going up, each
\* exact when nulp is 0 and by fmt.ulp(func(x)) otherwise.
C3_ComparisonByNulp ==
  (ret.fn \in LimitsSearch /\ ret.status = "ok") =>
     LET fmt  == lookup(ret.key)
         down == ret.fn = "limits.find_limit"
         stop(n) == AgreeAt(ret.func, ret.limit, ret.nulp, fmt,
                            SearchPoint(fmt, down, n), ret.key) = down
     IN  /\ \A n \in 0..(ret.coarse - 1) : ~stop(n)
         /\ ret.coarse < StepBound(fmt) => stop(ret.coarse)

\* C4: a search given its limit as a constant value completes without
\* error, as it does given the constant function, in the coarse search and
\* in the bisection.
C4_ConstantLimit ==
  ( /\ ret.fn \in FpSearch \cup {"bisect_limit"}
    /\ ~callable(ret.limit)
    /\ ret.status # "KeyError" /\ ~Raises(ret.func) ) =>
  ret.status = "ok"

\* C5: when a call has finished, by return or by an exception, mp.prec is
\* what it was when the call was entered.
C5_PrecisionRestored ==
  (call.pc = "idle" /\ ret.fn # "none") =>
     /\ ret.exit = ret.entry
     /\ mp_prec = ret.entry

\* C5 witness: bisect_limit, called inside a workfloat block with a prec
\* other than the block's, has ended with the TypeError of a limit that is
\* not callable.
C5_Witness ==
  /\ wf.active /\ call.pc = "idle"
  /\ ret.fn = "bisect_limit" /\ ret.status = "TypeError"
  /\ ret.prec = 24 /\ ret.entry # 24 /\ ret.evals > 0

\* C6: find_limit_reverse and find_limit, with the same arguments and a
\* downward closed agreement region, both return a boundary, within a
\* factor of two of the largest search point where func and limit agree.
C6_ReverseMatchesForward ==
  LET fmt == lookup(ret.key)
      p   == ret.key
      agree == {n \in 0..StepBound(fmt) :
                  AgreeAt(ret.func, ret.limit, ret.nulp, fmt, pow2(-n), p)}
      edge  == pow2(-MinOf(agree))
  IN  ( /\ ret.fn \in FpSearch
        /\ ret.status # "KeyError" /\ ~Raises(ret.func)
        /\ DownwardClosed(ret.func, ret.limit, ret.nulp, fmt, p)
        /\ agree # {} ) =>
      /\ ret.status = "ok"
      /\ Leq(Scale(edge, -1), ret.value)
      /\ Leq(ret.value, Scale(edge, 1))

\* C7: ieee_format(p) and every search entry point raise KeyError exactly
\* when the precision asked for (the ambient one when p is omitted) is
\* none of 24, 53, 63, 113; the error comes before func or limit is
\* evaluated and leaves mp.prec alone; otherwise ieee_format returns the one
\* registered format of that precision.
C7_FormatLookup ==
  (ret.fn \in FpSearch \cup {"bisect_limit", "ieee_format"}) =>
     LET k == IF ret.prec = None THEN ret.entry ELSE ret.prec
     IN  /\ ret.status = "KeyError" <=> k \notin {24, 53, 63, 113}
         /\ ret.status = "KeyError" =>
              ret.evals = 0 /\ ret.exit = ret.entry /\ mp_prec = ret.entry
         /\ (ret.fn = "ieee_format" /\ ret.status = "ok") =>
              /\ ret.fmt.prec = k
              /\ Cardinality({i \in DOMAIN ieee_formats :
                                ieee_formats[i].prec = k}) = 1
              /\ \E i \in DOMAIN ieee_formats : ieee_formats[i] = ret.fmt

\* C7 witness: find_limit_reverse, called with prec omitted while mp.prec is
\* no standard format's precision, has raised KeyError.
C7_Witness ==
  /\ ret.fn = "find_limit_reverse" /\ ret.status = "KeyError"
  /\ ret.prec = None /\ ret.entry = 30

\* C8: for a nonzero x that the format can hold, fmt.ulp(x) is a positive u
\* with x + u != x and x + u/2 == x at the format's precision, whatever the
\* ambient precision.
C8_UlpMinimalIncrement ==
  LET fmt == lookup(ret.key)
      x   == ret.arg
      u   == ret.value
  IN  (ret.fn = "ulp" /\ x # zero /\ Round(x, fmt.prec) = x) =>
      /\ Less(zero, u)
      /\ Add(x, u, fmt.prec) # x
      /\ Add(x, Scale(u, -1), fmt.prec) = x

\* C9: in bisect_limit, started on a bracket lower_limit <= upper_limit
\* where func agrees with limit at lower_limit and not at upper_limit,
\* every iteration keeps agreement
\* at lower_limit, disagreement at upper_limit and lower_limit <= upper_limit.
C9_BracketInvariant ==
  LET fmt == lookup(call.key)
      p   == call.key
      ok(x) == AgreeAt(call.func, call.limit, call.nulp, fmt, x, p)
  IN  ( /\ call.pc = "bisect" /\ callable(call.limit) /\ ~Raises(call.func)
        /\ Leq(call.lower0, call.upper0)
        /\ ok(call.lower0) /\ ~ok(call.upper0) ) =>
      /\ ok(call.lower) /\ ~ok(call.upper)
      /\ Leq(call.lower, call.upper)

\* C9, for nulp = 0 alone.
C9_ExactBracketInvariant == call.nulp = 0 => C9_BracketInvariant

\* C10: bisect_limit, on any bracket, returns without raising an error.
C10_BisectReturns ==
  (ret.fn = "bisect_limit" /\ ret.status # "KeyError" /\ ~Raises(ret.func)) =>
  ret.status = "ok"

\* C10, the loop that does not end: on the bracket [0, 1], with func and
\* limit agreeing at 0 only, bisect_limit is still halving x after MaxBisect
\* iterations, x = 2^-MaxBisect, with nothing in its loop condition to stop it.
C10_StillHalving ==
  /\ call.pc = "bisect" /\ call.nsteps = MaxBisect /\ bisect_continues(call)
  /\ call.lower = zero /\ call.x = pow2(-MaxBisect)
====
